---- MODULE Spec2Model ----
(***************************************************************************)
(* NBA BPM Impact Dashboard (src/app.py).                                  *)
(*                                                                         *)
(* The program is a Streamlit script: every page load or widget change     *)
(* runs app.py from its first line to its last (or to st.stop(), or to an  *)
(* uncaught exception).  load_nba_data() is memoized by st.cache_data with *)
(* a 24 hour time-to-live.  The model follows one script run step by step  *)
(* (pc), keeps the memo cache and a clock across runs, and represents      *)
(*   - text (column names, cells)  as sequences of one-character strings,  *)
(*   - G, MP, BPM                  as integers counting tenths,            *)
(*   - MPG                         as a float counting tenths,             *)
(*   - Impact and its sums         as floats counting thousandths,         *)
(* where a float is a record that is a number, NaN, or +/- infinity.       *)
(***************************************************************************)
EXTENDS Integers, Sequences, FiniteSets, TLC

\* ------------------------------------------------------------------ bounds

\* The clock stops after this many ticks.
MaxTicks == 4
\* load_nba_data() fetches the page at most this many times in a behaviour.
MaxFetches == 2
\* The longest source table (rows of the HTML table) of the Spec behaviours.
MaxRows == 2
\* At most this many players are selected as injured in one run.
MaxInjured == 1

\* One tick of the clock, in seconds (10 hours).
TickSeconds == 10 * 3600

\* ------------------------------------------------------------------- text

\* The characters the source tables use, in code point order.
Alphabet ==
    << " ", "*", "-", ".", "0", "1", "2", "3", "4", "5", "6", "7", "8", "9",
       "A", "B", "G", "I", "L", "M", "O", "P", "R", "S", "T",
       "a", "e", "k", "l", "m", "r", "y" >>

CharRank(c) == CHOOSE i \in 1..Len(Alphabet) : Alphabet[i] = c

\* Python's str < str: lexicographic by code point.
RECURSIVE StrLess(_, _)
StrLess(a, b) ==
    IF b = << >> THEN FALSE
    ELSE IF a = << >> THEN TRUE
    ELSE IF a[1] = b[1] THEN StrLess(Tail(a), Tail(b))
    ELSE CharRank(a[1]) < CharRank(b[1])

\* str.strip(): leading and trailing whitespace removed.
RECURSIVE LStrip(_)
LStrip(s) == IF s # << >> /\ s[1] = " " THEN LStrip(Tail(s)) ELSE s

RECURSIVE RStrip(_)
RStrip(s) ==
    IF s # << >> /\ s[Len(s)] = " " THEN RStrip(SubSeq(s, 1, Len(s) - 1)) ELSE s

Strip(s) == RStrip(LStrip(s))

\* Python's `sub in s` for strings.
Contains(s, sub) ==
    \E i \in 1..(Len(s) - Len(sub) + 1) : SubSeq(s, i, i + Len(sub) - 1) = sub

S_Rk == << "R", "k" >>
S_Player == << "P", "l", "a", "y", "e", "r" >>
S_Team == << "T", "e", "a", "m" >>
S_G == << "G" >>
S_MP == << "M", "P" >>
S_BPM == << "B", "P", "M" >>
S_LAL == << "L", "A", "L" >>
S_BOS == << "B", "O", "S" >>
S_MIA == << "M", "I", "A" >>

\* ----------------------------------------------------------------- floats

NaN == [k |-> "nan", v |-> 0]
PosInf == [k |-> "inf", v |-> 1]
NegInf == [k |-> "inf", v |-> -1]
Num(n) == [k |-> "num", v |-> n]

IsNaN(x) == x.k = "nan"
IsFinite(x) == x.k = "num"

Sign(n) == IF n > 0 THEN 1 ELSE IF n < 0 THEN -1 ELSE 0
Abs(n) == IF n < 0 THEN -n ELSE n

\* n / d rounded to the nearest integer, halves to the even neighbour
\* (numpy's round), for d > 0.
RoundDiv(n, d) ==
    LET q == n \div d
        r == n % d
    IN  IF 2 * r < d THEN q
        ELSE IF 2 * r > d THEN q + 1
        ELSE IF q % 2 = 0 THEN q
        ELSE q + 1

\* IEEE addition and subtraction, and Python's comparison of floats.
FAdd(a, b) ==
    IF IsNaN(a) \/ IsNaN(b) THEN NaN
    ELSE IF IsFinite(a) /\ IsFinite(b) THEN Num(a.v + b.v)
    ELSE IF IsFinite(a) THEN b
    ELSE IF IsFinite(b) THEN a
    ELSE IF a.v = b.v THEN a
    ELSE NaN

FNeg(a) == IF IsFinite(a) THEN Num(-a.v) ELSE IF IsNaN(a) THEN NaN ELSE [a EXCEPT !.v = -a.v]

FSub(a, b) == FAdd(a, FNeg(b))

FLess(a, b) ==
    IF IsNaN(a) \/ IsNaN(b) THEN FALSE
    ELSE IF IsFinite(a) /\ IsFinite(b) THEN a.v < b.v
    ELSE IF IsFinite(a) THEN b.v > 0
    ELSE IF IsFinite(b) THEN a.v < 0
    ELSE a.v < b.v

\* a * m / d rounded like RoundDiv, for m, d > 0, without forming a * m
\* (the products stay within 32 bits).
MulDivRound(a, m, d) ==
    LET part == (a % d) * m
        whole == (a \div d) * m + (part \div d)
        r == part % d
    IN  IF 2 * r < d THEN whole
        ELSE IF 2 * r > d THEN whole + 1
        ELSE IF whole % 2 = 0 THEN whole
        ELSE whole + 1

FAbs(a) == IF IsFinite(a) THEN Num(Abs(a.v)) ELSE IF IsNaN(a) THEN NaN ELSE PosInf

\* ----------------------------------------------------------- the source page

\* What pd.read_html(url)[0] gives: the fetch raises (ok = FALSE), or a table
\* with its column names and its rows of text cells, one cell per column.
\* An empty cell (<< >>) is a missing value.
Document(ok, columns, rows) == [ok |-> ok, columns |-> columns, rows |-> rows]

\* The index of the first column named `name`, 0 when there is none
\* (df[name] then raises KeyError).
ColIndex(columns, name) ==
    IF \E i \in 1..Len(columns) : columns[i] = name
    THEN CHOOSE i \in 1..Len(columns) :
            columns[i] = name /\ \A j \in 1..(i - 1) : columns[j] # name
    ELSE 0

\* Boolean indexing, df[mask]: the rows whose mask entry is TRUE, in order.
RECURSIVE SelectRows(_, _)
SelectRows(seq, mask) ==
    IF seq = << >> THEN << >>
    ELSE IF mask[1] THEN << seq[1] >> \o SelectRows(Tail(seq), Tail(mask))
    ELSE SelectRows(Tail(seq), Tail(mask))

\* df = df[df['Rk'] != 'Rk']
DropHeaderRows(rows, rk) ==
    SelectRows(rows, [i \in 1..Len(rows) |-> rows[i][rk] # S_Rk])

\* df.columns = df.columns.str.strip()
StripColumns(columns) == [i \in 1..Len(columns) |-> Strip(columns[i])]

\* The first column whose name contains "BPM"; 0 is bpm_column = None.
FindBpmColumn(columns) ==
    IF \E i \in 1..Len(columns) : Contains(columns[i], S_BPM)
    THEN CHOOSE i \in 1..Len(columns) :
            /\ Contains(columns[i], S_BPM)
            /\ \A j \in 1..(i - 1) : ~Contains(columns[j], S_BPM)
    ELSE 0

Digits == << "0", "1", "2", "3", "4", "5", "6", "7", "8", "9" >>
IsDigit(c) == \E i \in 1..10 : Digits[i] = c
DigitValue(c) == (CHOOSE i \in 1..10 : Digits[i] = c) - 1

\* The value of a non-empty string of digits, -1 for anything else.
RECURSIVE ParseDigits(_)
ParseDigits(s) ==
    IF s = << >> \/ \E i \in 1..Len(s) : ~IsDigit(s[i]) THEN -1
    ELSE IF Len(s) = 1 THEN DigitValue(s[1])
    ELSE 10 * ParseDigits(SubSeq(s, 1, Len(s) - 1)) + DigitValue(s[Len(s)])

\* The value, in tenths, of an unsigned decimal with at most one fractional
\* digit ("70", "5.0"), -1 for anything else.
ParseUnsigned(s) ==
    IF Len(s) >= 3 /\ s[Len(s) - 1] = "."
    THEN LET whole == ParseDigits(SubSeq(s, 1, Len(s) - 2))
             frac == ParseDigits(<< s[Len(s)] >>)
         IN  IF whole < 0 \/ frac < 0 THEN -1 ELSE 10 * whole + frac
    ELSE LET whole == ParseDigits(s)
         IN  IF whole < 0 THEN -1 ELSE 10 * whole

\* pd.to_numeric(cell, errors='coerce'), in tenths: text that is no number
\* (a repeated header label, an empty cell) becomes NaN.
ToNumeric(cell) ==
    LET neg == cell # << >> /\ cell[1] = "-"
        mag == ParseUnsigned(IF neg THEN Tail(cell) ELSE cell)
    IN  IF mag < 0 THEN NaN ELSE Num(IF neg THEN -mag ELSE mag)

\* df[['Player', 'Team', 'G', 'MP', bpm_column]] renamed, then the three
\* to_numeric conversions.
Coerce(r, cP, cT, cG, cMP, cBPM) ==
    [Player |-> r[cP], Team |-> r[cT], G |-> ToNumeric(r[cG]),
     MP |-> ToNumeric(r[cMP]), BPM |-> ToNumeric(r[cBPM])]

\* df.dropna() keeps a row when none of its five fields is missing.
Complete(r) ==
    /\ r.Player # << >>
    /\ r.Team # << >>
    /\ ~IsNaN(r.G) /\ ~IsNaN(r.MP) /\ ~IsNaN(r.BPM)

\* df['MP'] / df['G'] rounded to one decimal, in tenths.
MinutesPerGame(mp, g) ==
    IF g = 0 THEN (IF mp = 0 THEN NaN ELSE IF mp > 0 THEN PosInf ELSE NegInf)
    ELSE Num(RoundDiv(10 * mp * Sign(g), Abs(g)))

\* ((df['BPM'] / 100) * (df['MP'] / df['G']) * 2.083).round(3), in
\* thousandths; MP / G is the unrounded quotient.
ImpactOf(bpm, mp, g) ==
    IF g = 0
    THEN (IF mp = 0 \/ bpm = 0 THEN NaN
          ELSE IF Sign(mp) * Sign(bpm) > 0 THEN PosInf ELSE NegInf)
    ELSE Num(MulDivRound(bpm * mp * Sign(g), 2083, 1000 * Abs(g)))

\* A record of the table load_nba_data() returns.
Derive(r) ==
    [Player |-> r.Player, Team |-> r.Team, G |-> r.G.v, MP |-> r.MP.v,
     BPM |-> r.BPM.v,
     MPG |-> MinutesPerGame(r.MP.v, r.G.v),
     Impact |-> ImpactOf(r.BPM.v, r.MP.v, r.G.v)]

NoneResult(msg) == [isNone |-> TRUE, df |-> << >>, error |-> msg]
TableResult(df) == [isNone |-> FALSE, df |-> df, error |-> ""]

\* The branch falling through with an empty table instead of returning None.
MissingBpmFallback == TableResult(<< >>)

\* Lines 31-33: st.error(...) and return None.
MissingBpmColumn == NoneResult("Could not find BPM column in the data!")

\* Lines 57-59: st.error(...) and return None.
LoadException == NoneResult("Error loading data")

\* The body of load_nba_data() on the document the fetch returns.
LoadBody(doc) ==
    IF ~doc.ok THEN LoadException
    ELSE
    LET rk == ColIndex(doc.columns, S_Rk)
        columns == StripColumns(doc.columns)
        bpm == FindBpmColumn(columns)
        cP == ColIndex(columns, S_Player)
        cT == ColIndex(columns, S_Team)
        cG == ColIndex(columns, S_G)
        cMP == ColIndex(columns, S_MP)
    IN  IF rk = 0 THEN LoadException
        ELSE IF bpm = 0 THEN MissingBpmColumn
        ELSE IF cP = 0 \/ cT = 0 \/ cG = 0 \/ cMP = 0
        THEN LoadException
        ELSE
        LET body == DropHeaderRows(doc.rows, rk)
            coerced == [i \in 1..Len(body) |->
                           Coerce(body[i], cP, cT, cG, cMP, bpm)]
            kept == SelectRows(coerced, [i \in 1..Len(coerced) |-> Complete(coerced[i])])
        IN  TableResult([i \in 1..Len(kept) |-> Derive(kept[i])])

\* ------------------------------------------------------- the interactive view

\* working_data = nba_data.copy(), then Impact = 0 on the rows whose Player
\* is selected as injured.
ZeroInjured(df, injured) ==
    [i \in 1..Len(df) |->
        IF df[i].Player \in injured THEN [df[i] EXCEPT !.Impact = Num(0)]
        ELSE df[i]]

\* The step without the copy: working_data is nba_data itself, and the
\* assignment changes both.
AliasAndZero(base, injured) ==
    [base |-> ZeroInjured(base, injured), working |-> ZeroInjured(base, injured)]

\* Lines 80-84 as one step on (nba_data, working_data): the copy keeps the
\* loaded table apart from the working table the assignment changes.
CopyAndZero(base, injured) ==
    [base |-> base, working |-> ZeroInjured(base, injured)]

\* The filter with > in place of >=.
GamesAbove(r, games) == r.G > 10 * games

\* G counts tenths; the slider's min_games counts games.
GamesAtLeast(r, games) == r.G >= 10 * games

\* working_data[working_data['G'] >= min_games]
FilterByGames(df, games) ==
    SelectRows(df, [i \in 1..Len(df) |-> GamesAtLeast(df[i], games)])

\* sorted(filtered_data['Team'].unique())
RECURSIVE SortedStrings(_)
SortedStrings(set) ==
    IF set = {} THEN << >>
    ELSE LET least == CHOOSE x \in set : \A y \in set : ~StrLess(y, x)
         IN  << least >> \o SortedStrings(set \ {least})

AllTeams(df) == SortedStrings({df[i].Team : i \in 1..Len(df)})

InList(x, list) == \E i \in 1..Len(list) : list[i] = x

\* 'BOS' if 'BOS' in all_teams else all_teams[1] if len(all_teams) > 1
\* else all_teams[0]   (Python indexes from 0); defined for a non-empty list.
Team2Default(teams) ==
    IF InList(S_BOS, teams) THEN S_BOS
    ELSE IF Len(teams) > 1 THEN teams[2]
    ELSE teams[1]

\* filtered_data[filtered_data['Team'] == team]
TeamRows(df, team) ==
    SelectRows(df, [i \in 1..Len(df) |-> df[i].Team = team])

\* Series.sum(): NaN entries are skipped, the sum of nothing is 0.
RECURSIVE SumImpact(_)
SumImpact(df) ==
    IF df = << >> THEN Num(0)
    ELSE IF IsNaN(df[1].Impact) THEN SumImpact(Tail(df))
    ELSE FAdd(df[1].Impact, SumImpact(Tail(df)))

\* The thresholds with >= and <= in place of > and <.
PredictionInclusive(adv) ==
    IF ~FLess(adv, Num(1000)) /\ ~IsNaN(adv) THEN [kind |-> "team1", by |-> adv]
    ELSE IF ~FLess(Num(-1000), adv) /\ ~IsNaN(adv) THEN [kind |-> "team2", by |-> FAbs(adv)]
    ELSE [kind |-> "close", by |-> Num(0)]

\* Lines 140-145: the favourite, and by how much.
Prediction(adv) ==
    IF FLess(Num(1000), adv) THEN [kind |-> "team1", by |-> adv]
    ELSE IF FLess(adv, Num(-1000)) THEN [kind |-> "team2", by |-> FAbs(adv)]
    ELSE [kind |-> "close", by |-> Num(0)]

SortColumns == {"Team", "Player", "Impact", "BPM", "MPG", "G"}
SortOrders == {"Descending", "Ascending"}

\* a's value in column col sorts strictly before b's, ascending.
KeyLess(col, a, b) ==
    CASE col = "Team" -> StrLess(a.Team, b.Team)
      [] col = "Player" -> StrLess(a.Player, b.Player)
      [] col = "Impact" -> FLess(a.Impact, b.Impact)
      [] col = "MPG" -> FLess(a.MPG, b.MPG)
      [] col = "BPM" -> a.BPM < b.BPM
      [] col = "G" -> a.G < b.G

KeyIsNaN(col, a) ==
    CASE col = "Impact" -> IsNaN(a.Impact)
      [] col = "MPG" -> IsNaN(a.MPG)
      [] OTHER -> FALSE

\* Row a must come before row b in sort_values(by=col, ascending=asc):
\* NaN keys go last (na_position='last') in either direction.
Precedes(col, asc, a, b) ==
    IF KeyIsNaN(col, a) THEN FALSE
    ELSE IF KeyIsNaN(col, b) THEN TRUE
    ELSE IF asc THEN KeyLess(col, a, b)
    ELSE KeyLess(col, b, a)

\* The rows at the indices idxs of df that no other row there must precede.
Firsts(df, idxs, col, asc) ==
    {i \in idxs : \A j \in idxs : ~Precedes(col, asc, df[j], df[i])}

\* sort_values with a stable kind: rows with equal keys keep their order in
\* df, in both directions.
RECURSIVE StableOrder(_, _, _, _)
StableOrder(df, idxs, col, asc) ==
    IF idxs = {} THEN << >>
    ELSE LET fs == Firsts(df, idxs, col, asc)
             i == CHOOSE x \in fs : \A y \in fs : x <= y
         IN  << df[i] >> \o StableOrder(df, idxs \ {i}, col, asc)

StableSort(df, col, asc) == StableOrder(df, 1..Len(df), col, asc)

\* sort_values as the script calls it, with the default kind='quicksort',
\* which is not stable: every arrangement of df that is ordered by the key
\* is an outcome.
RECURSIVE Orderings(_, _, _, _)
Orderings(df, idxs, col, asc) ==
    IF idxs = {} THEN {<< >>}
    ELSE UNION {{<< df[i] >> \o rest :
                    rest \in Orderings(df, idxs \ {i}, col, asc)} :
                i \in Firsts(df, idxs, col, asc)}

SortValues(df, col, asc) == Orderings(df, 1..Len(df), col, asc)

PlayerImpact(df) ==
    [i \in 1..Len(df) |-> [Player |-> df[i].Player, Impact |-> df[i].Impact]]

Min(a, b) == IF a < b THEN a ELSE b

\* The number of rows nlargest is asked for (lines 195 and 200).
TopN == 5

\* head(n) in place of nlargest(n, 'Impact').
HeadN(df, n) == {PlayerImpact(SubSeq(df, 1, Min(n, Len(df))))}

\* df.nlargest(n, 'Impact')[['Player', 'Impact']]: with n >= len(df) pandas
\* returns sort_values(ascending=False).head(n) (default kind), otherwise
\* the n largest with keep='first', which breaks ties by position.
NLargest(df, n) ==
    IF n >= Len(df)
    THEN {PlayerImpact(o) : o \in SortValues(df, "Impact", FALSE)}
    ELSE LET valid == SelectRows(df, [i \in 1..Len(df) |-> ~IsNaN(df[i].Impact)])
             o == StableSort(valid, "Impact", FALSE)
         IN  {PlayerImpact(SubSeq(o, 1, Min(n, Len(o))))}

\* ---------------------------------------------------------- the source tables

\* The table's columns: as published, with padded names and a marked BPM
\* column, without any BPM column, and without a Team column.
StdColumns == << S_Rk, S_Player, S_Team, S_G, S_MP, S_BPM >>
MarkedColumns ==
    << S_Rk, << " " >> \o S_Player, S_Team \o << " " >>, S_G, S_MP,
       S_BPM \o << "*" >> >>
NoBpmColumns == << S_Rk, S_Player, S_Team, S_G, S_MP, << "P", "E", "R" >> >>
NoTeamColumns == << S_Rk, S_Player, << "T", "m" >>, S_G, S_MP, S_BPM >>
ColumnSets == {StdColumns, MarkedColumns, NoBpmColumns, NoTeamColumns}

\* Rows the page may hold (Rk, Player, Team, G, MP, BPM): a repeated header,
\* players of three teams (one of them traded: "A" plays for LAL and MIA;
\* "B" has played exactly the slider's default of 20 games),
\* a player with no game played, and a player whose G cell is empty.
Roster ==
    << << S_Rk, S_Player, S_Team, S_G, S_MP, S_BPM >>,
       << << "1" >>, << "A" >>, S_LAL, << "7", "0" >>, << "2", "4", "5", "0" >>,
          << "5", ".", "0" >> >>,
       << << "2" >>, << "B" >>, S_LAL, << "2", "0" >>, << "2", "0", "0" >>,
          << "4", ".", "8" >> >>,
       << << "3" >>, << "A" >>, S_MIA, << "2", "5" >>, << "5", "0", "0" >>,
          << "-", "2", ".", "0" >> >>,
       << << "4" >>, << "G" >>, S_BOS, << "8", "2" >>, << "2", "4", "6", "0" >>,
          << "3", ".", "0" >> >>,
       << << "5" >>, << "O" >>, S_BOS, << "0" >>, << "1", "2" >>,
          << "1", ".", "0" >> >>,
       << << "6" >>, << "I" >>, S_LAL, << >>, << "1", "2" >>,
          << "0", ".", "5" >> >>,
       << << "7" >>, << "M" >>, S_BOS, << "7", "0" >>, << "1", "4", "0", "0" >>,
          << "-", "1", ".", "2" >> >> >>

\* The rows of seq at the indices idxs, in order.
RECURSIVE Pick(_, _)
Pick(seq, idxs) ==
    IF idxs = {} THEN << >>
    ELSE LET i == CHOOSE x \in idxs : \A y \in idxs : x <= y
         IN  << seq[i] >> \o Pick(seq, idxs \ {i})

\* Every selection of at most n rows of seq, in seq's order.
Selections(seq, n) ==
    {Pick(seq, idxs) : idxs \in {x \in SUBSET (1..Len(seq)) : Cardinality(x) <= n}}

FetchFailure == Document(FALSE, << >>, << >>)

Documents ==
    {FetchFailure}
    \cup {Document(TRUE, c, rows) : c \in ColumnSets, rows \in Selections(Roster, MaxRows)}

\* ------------------------------------------------------------------- state

VARIABLES
    now,              \* the clock, in seconds
    cache,            \* st.cache_data's entry for load_nba_data()
    fetches,          \* how many times the page was fetched
    pc,               \* where the script run is
    page,             \* what this run's fetch met, "not fetched" when the
                      \* function body did not run
    st_error,         \* the st.error message on the page, "" for none
    nba_data,
    injured_players,
    working_data,
    min_games,
    filtered_data,
    all_teams,
    team2_default,
    team1,
    team2,
    team1_data,
    team2_data,
    team1_impact,
    team2_impact,
    advantage,
    prediction,
    sort_by,
    sort_order,
    combined_data,
    sorted_data,
    top_team1,
    top_team2

loadVars == << page, st_error, nba_data >>
injuryVars == << injured_players, working_data >>
filterVars == << min_games, filtered_data, all_teams >>
teamVars == << team2_default, team1, team2 >>
matchupVars ==
    << team1_data, team2_data, team1_impact, team2_impact, advantage, prediction >>
sortVars == << sort_by, sort_order, combined_data, sorted_data >>
topVars == << top_team1, top_team2 >>
viewVars == << injuryVars, filterVars, teamVars, matchupVars, sortVars, topVars >>
cacheVars == << cache, fetches >>
vars == << now, cacheVars, pc, loadVars, viewVars >>

\* @st.cache_data(ttl=86400)
TTL == 86400

\* st.sidebar.slider("Minimum games played:", 1, 82, 20): the least, the
\* default and the greatest value of the slider.
MinGamesChoices == {1, 20, 82}

EmptyCache == [full |-> FALSE, value |-> NoneResult(""), stamp |-> 0]

\* The values of a run's variables before the run assigns them.
NotRun ==
    [nba_data |-> NoneResult(""), df |-> << >>, text |-> << >>,
     number |-> Num(0), prediction |-> [kind |-> "none", by |-> Num(0)]]

ViewNotRun ==
    /\ injured_players = {}
    /\ working_data = NotRun.df
    /\ min_games = 0
    /\ filtered_data = NotRun.df
    /\ all_teams = << >>
    /\ team2_default = NotRun.text
    /\ team1 = NotRun.text
    /\ team2 = NotRun.text
    /\ team1_data = NotRun.df
    /\ team2_data = NotRun.df
    /\ team1_impact = NotRun.number
    /\ team2_impact = NotRun.number
    /\ advantage = NotRun.number
    /\ prediction = NotRun.prediction
    /\ sort_by = ""
    /\ sort_order = ""
    /\ combined_data = NotRun.df
    /\ sorted_data = NotRun.df
    /\ top_team1 = << >>
    /\ top_team2 = << >>

Init ==
    /\ now = 0
    /\ cache = EmptyCache
    /\ fetches = 0
    /\ pc = "load"
    /\ page = "not fetched"
    /\ st_error = ""
    /\ nba_data = NotRun.nba_data
    /\ ViewNotRun

\* ----------------------------------------------------------------- actions

\* What the fetch of a run met: the request or the parse raised, the table
\* has no column whose name contains "BPM", or neither.
PageKind(doc) ==
    IF ~doc.ok THEN "unreachable"
    ELSE IF \A i \in 1..Len(doc.columns) : ~Contains(doc.columns[i], S_BPM)
    THEN "no BPM column"
    ELSE "table"

\* This run's call of load_nba_data() ran the function body.
fetched == page # "not fetched"

\* An entry that never expires (the ttl ignored).
CacheNeverExpires == cache.full

\* The entry st.cache_data holds is still valid.
CacheHit == cache.full /\ now - cache.stamp < TTL

\* Lines 61-66 when st.cache_data holds a valid entry: the stored return value
\* is handed back and the st.error it recorded is replayed; the function body
\* does not run.  A None result stops the script.
LoadCached ==
    /\ pc = "load"
    /\ CacheHit
    /\ nba_data' = cache.value
    /\ st_error' = cache.value.error
    /\ page' = "not fetched"
    /\ pc' = IF cache.value.isNone THEN "stopped" ELSE "injury"
    /\ UNCHANGED << now, cacheVars, viewVars >>

\* What st.cache_data stores once the function body has returned `result`:
\* every return value, None included, with the time of the call.
Memoize(result) == [full |-> TRUE, value |-> result, stamp |-> now]

\* Lines 61-66 when there is no valid entry: the body runs on the page the
\* fetch returns.
LoadFetch ==
    /\ pc = "load"
    /\ ~CacheHit
    /\ fetches < MaxFetches
    /\ \E doc \in Documents :
       \E result \in {LoadBody(doc)} :
          /\ page' = PageKind(doc)
          /\ nba_data' = result
          /\ st_error' = result.error
          /\ cache' = Memoize(result)
          /\ pc' = IF result.isNone THEN "stopped" ELSE "injury"
    /\ fetches' = fetches + 1
    /\ UNCHANGED << now, viewVars >>

Players(df) == {df[i].Player : i \in 1..Len(df)}

\* Lines 71-85.
ApplyInjuries ==
    /\ pc = "injury"
    /\ \E injured \in {x \in SUBSET Players(nba_data.df) : Cardinality(x) <= MaxInjured} :
          LET step == CopyAndZero(nba_data.df, injured)
          IN  /\ injured_players' = injured
              /\ nba_data' = [nba_data EXCEPT !.df = step.base]
              /\ working_data' = step.working
    /\ pc' = "filter"
    /\ UNCHANGED << now, cacheVars, page, st_error, filterVars, teamVars,
                    matchupVars, sortVars, topVars >>

\* Lines 87-94.
FilterGames ==
    /\ pc = "filter"
    /\ \E games \in MinGamesChoices :
          /\ min_games' = games
          /\ filtered_data' = FilterByGames(working_data, games)
          /\ all_teams' = AllTeams(FilterByGames(working_data, games))
    /\ pc' = "teams"
    /\ UNCHANGED << now, cacheVars, loadVars, injuryVars, teamVars, matchupVars,
                    sortVars, topVars >>

\* Lines 96-102 with no team left after the filter: all_teams[0] raises
\* IndexError, which nothing catches.
SelectTeamsIndexError ==
    /\ pc = "teams"
    /\ all_teams = << >>
    /\ pc' = "crashed"
    /\ UNCHANGED << now, cacheVars, loadVars, viewVars >>

\* Lines 96-102: each select box returns one of all_teams.
SelectTeams ==
    /\ pc = "teams"
    /\ all_teams # << >>
    /\ team2_default' = Team2Default(all_teams)
    /\ \E i, j \in 1..Len(all_teams) :
          /\ team1' = all_teams[i]
          /\ team2' = all_teams[j]
    /\ pc' = "matchup"
    /\ UNCHANGED << now, cacheVars, loadVars, injuryVars, filterVars, matchupVars,
                    sortVars, topVars >>

\* Lines 104-145.
Matchup ==
    /\ pc = "matchup"
    /\ team1_data' = TeamRows(filtered_data, team1)
    /\ team2_data' = TeamRows(filtered_data, team2)
    /\ team1_impact' = SumImpact(TeamRows(filtered_data, team1))
    /\ team2_impact' = SumImpact(TeamRows(filtered_data, team2))
    /\ advantage' = FSub(SumImpact(TeamRows(filtered_data, team1)),
                         SumImpact(TeamRows(filtered_data, team2)))
    /\ prediction' = Prediction(FSub(SumImpact(TeamRows(filtered_data, team1)),
                                     SumImpact(TeamRows(filtered_data, team2))))
    /\ pc' = "sort"
    /\ UNCHANGED << now, cacheVars, loadVars, injuryVars, filterVars, teamVars,
                    sortVars, topVars >>

\* Lines 147-186.
SortTable ==
    /\ pc = "sort"
    /\ combined_data' = team1_data \o team2_data
    /\ \E col \in SortColumns, order \in SortOrders :
          /\ sort_by' = col
          /\ sort_order' = order
          /\ sorted_data' \in SortValues(team1_data \o team2_data, col,
                                         order = "Ascending")
    /\ pc' = "top"
    /\ UNCHANGED << now, cacheVars, loadVars, injuryVars, filterVars, teamVars,
                    matchupVars, topVars >>

\* Lines 188-201.
TopPerformers ==
    /\ pc = "top"
    /\ top_team1' \in NLargest(team1_data, TopN)
    /\ top_team2' \in NLargest(team2_data, TopN)
    /\ pc' = "done"
    /\ UNCHANGED << now, cacheVars, loadVars, injuryVars, filterVars, teamVars,
                    matchupVars, sortVars >>

AtRest == pc \in {"done", "stopped", "crashed"}

\* A page load or a widget change runs the script again from its first line.
Rerun ==
    /\ AtRest
    /\ pc' = "load"
    /\ page' = "not fetched"
    /\ st_error' = ""
    /\ nba_data' = NotRun.nba_data
    /\ injured_players' = {}
    /\ working_data' = NotRun.df
    /\ min_games' = 0
    /\ filtered_data' = NotRun.df
    /\ all_teams' = << >>
    /\ team2_default' = NotRun.text
    /\ team1' = NotRun.text
    /\ team2' = NotRun.text
    /\ team1_data' = NotRun.df
    /\ team2_data' = NotRun.df
    /\ team1_impact' = NotRun.number
    /\ team2_impact' = NotRun.number
    /\ advantage' = NotRun.number
    /\ prediction' = NotRun.prediction
    /\ sort_by' = ""
    /\ sort_order' = ""
    /\ combined_data' = NotRun.df
    /\ sorted_data' = NotRun.df
    /\ top_team1' = << >>
    /\ top_team2' = << >>
    /\ UNCHANGED << now, cacheVars >>

\* Time passes between two runs.
Tick ==
    /\ AtRest
    /\ now < MaxTicks * TickSeconds
    /\ now' = now + TickSeconds
    /\ UNCHANGED << cacheVars, pc, loadVars, viewVars >>

Next ==
    \/ LoadCached
    \/ LoadFetch
    \/ ApplyInjuries
    \/ FilterGames
    \/ SelectTeamsIndexError
    \/ SelectTeams
    \/ Matchup
    \/ SortTable
    \/ TopPerformers
    \/ Rerun
    \/ Tick

Spec == Init /\ [][Next]_vars

\* ------------------------------------------------ the top performers, alone

\* A page with a deep team: seven LAL players (two of them with equal
\* Impact, one with 10 games only) and one BOS player.
DeepRoster ==
    << << << "1" >>, << "A" >>, S_LAL, << "7", "0" >>, << "2", "4", "5", "0" >>,
          << "5", ".", "0" >> >>,
       << << "2" >>, << "B" >>, S_LAL, << "6", "0" >>, << "1", "8", "0", "0" >>,
          << "2", ".", "0" >> >>,
       << << "3" >>, << "G" >>, S_LAL, << "6", "0" >>, << "1", "8", "0", "0" >>,
          << "2", ".", "0" >> >>,
       << << "4" >>, << "I" >>, S_LAL, << "5", "0" >>, << "1", "0", "0", "0" >>,
          << "-", "1", ".", "0" >> >>,
       << << "5" >>, << "L" >>, S_LAL, << "4", "0" >>, << "4", "0", "0" >>,
          << "8", ".", "0" >> >>,
       << << "6" >>, << "M" >>, S_LAL, << "3", "0" >>, << "9", "0", "0" >>,
          << "0", ".", "5" >> >>,
       << << "7" >>, << "O" >>, S_LAL, << "1", "0" >>, << "1", "0", "0" >>,
          << "9", ".", "9" >> >>,
       << << "8" >>, << "P" >>, S_BOS, << "8", "2" >>, << "2", "4", "6", "0" >>,
          << "3", ".", "0" >> >> >>

DeepDocuments ==
    {Document(TRUE, StdColumns, rows) : rows \in Selections(DeepRoster, Len(DeepRoster))}

\* The script at line 188, the top performers next: a first run that has
\* loaded a page with a deep team and has sorted the combined table by
\* Player, ascending.
InitTop ==
    \E doc \in DeepDocuments :
    \E loaded \in {LoadBody(doc)} :
    \E injured \in {x \in SUBSET Players(loaded.df) : Cardinality(x) <= MaxInjured} :
    \E games \in MinGamesChoices :
    \E step \in {CopyAndZero(loaded.df, injured)} :
    \E filtered \in {FilterByGames(step.working, games)} :
    \E teams \in {AllTeams(filtered)} :
    \E i, j \in 1..Len(teams) :
    \E t1 \in {TeamRows(filtered, teams[i])} :
    \E t2 \in {TeamRows(filtered, teams[j])} :
    \E sum1 \in {SumImpact(t1)} :
    \E sum2 \in {SumImpact(t2)} :
    \E combined \in {t1 \o t2} :
       /\ now = 0
       /\ cache = [full |-> TRUE, value |-> loaded, stamp |-> 0]
       /\ fetches = 1
       /\ pc = "top"
       /\ page = "table"
       /\ st_error = ""
       /\ nba_data = [loaded EXCEPT !.df = step.base]
       /\ injured_players = injured
       /\ working_data = step.working
       /\ min_games = games
       /\ filtered_data = filtered
       /\ all_teams = teams
       /\ team2_default = Team2Default(teams)
       /\ team1 = teams[i]
       /\ team2 = teams[j]
       /\ team1_data = t1
       /\ team2_data = t2
       /\ team1_impact = sum1
       /\ team2_impact = sum2
       /\ advantage = FSub(sum1, sum2)
       /\ prediction = Prediction(FSub(sum1, sum2))
       /\ sort_by = "Player"
       /\ sort_order = "Ascending"
       /\ combined_data = combined
       /\ sorted_data \in SortValues(combined, "Player", TRUE)
       /\ top_team1 = << >>
       /\ top_team2 = << >>

NextTop == TopPerformers

SpecTop == InitTop /\ [][NextTop]_vars

\* ------------------------------------------------------------------ claims

AfterInjuries == pc \in {"filter", "teams", "matchup", "sort", "top", "done", "crashed"}
AfterMatchup == pc \in {"sort", "top", "done"}
AfterSort == pc \in {"top", "done"}

\* C1: injury application changes only the Impact of the injured records of
\* the working copy: row by row, the working table has Impact 0 where the
\* Player is injured and the loaded value elsewhere, every other field is the
\* loaded one, and the loaded table is still the table load_nba_data()
\* returned (the one the cache holds), in every run.
C1_InjuryFrame ==
    AfterInjuries =>
        /\ nba_data = cache.value
        /\ Len(working_data) = Len(nba_data.df)
        /\ \A i \in 1..Len(nba_data.df) :
              LET b == nba_data.df[i]
                  w == working_data[i]
              IN  /\ w.Player = b.Player /\ w.Team = b.Team /\ w.G = b.G
                  /\ w.MP = b.MP /\ w.BPM = b.BPM /\ w.MPG = b.MPG
                  /\ w.Impact = IF b.Player \in injured_players THEN Num(0)
                                ELSE b.Impact

\* A later run (served from the cache) has finished with an injured player
\* whose loaded Impact is not 0, next to a player who is not injured.
C1_Witness ==
    /\ pc = "done"
    /\ ~fetched
    /\ \E i, j \in 1..Len(nba_data.df) :
          /\ nba_data.df[i].Player \in injured_players
          /\ nba_data.df[i].Impact # Num(0)
          /\ nba_data.df[j].Player \notin injured_players

\* The sum, over the rows of the loaded table at the indices idxs, of the
\* injury-adjusted Impact (in thousandths).
RECURSIVE AdjustedSum(_)
AdjustedSum(idxs) ==
    IF idxs = {} THEN 0
    ELSE LET i == CHOOSE x \in idxs : TRUE
             r == nba_data.df[i]
         IN  (IF r.Player \in injured_players THEN 0 ELSE r.Impact.v)
             + AdjustedSum(idxs \ {i})

Qualifying(team) ==
    {i \in 1..Len(nba_data.df) :
        nba_data.df[i].Team = team /\ nba_data.df[i].G >= 10 * min_games}

\* C2: team1_impact is the sum of the injury-adjusted Impact over exactly
\* the rows with Team = team1 and G >= min_games, team2_impact likewise, and
\* advantage is their difference; the aggregation gives 0 for a team none of
\* whose rows qualifies.
C2_TeamTotals ==
    AfterMatchup =>
        /\ team1_impact = Num(AdjustedSum(Qualifying(team1)))
        /\ team2_impact = Num(AdjustedSum(Qualifying(team2)))
        /\ advantage = Num(AdjustedSum(Qualifying(team1)) - AdjustedSum(Qualifying(team2)))
        /\ \A t \in {S_LAL, S_BOS, S_MIA} :
              Qualifying(t) = {} => SumImpact(TeamRows(filtered_data, t)) = Num(0)

\* A finished run where team1 has a row the games filter removed, a healthy
\* row that counts, and somebody is injured.
C2_Witness ==
    /\ pc = "done"
    /\ injured_players # {}
    /\ team1_impact # Num(0)
    /\ \E i \in 1..Len(nba_data.df) :
          nba_data.df[i].Team = team1 /\ nba_data.df[i].G < 10 * min_games
    /\ \E t \in {S_LAL, S_BOS, S_MIA} : Qualifying(t) = {}

\* C3: the prediction follows advantage with exclusive thresholds: above 1,
\* team1 is favoured by advantage; below -1, team2 by |advantage|; from -1 to
\* 1, both ends included, the matchup is close.
C3_Prediction ==
    (AfterMatchup /\ IsFinite(advantage)) =>
        /\ prediction.kind \in {"team1", "team2", "close"}
        /\ advantage.v > 1000 => prediction = [kind |-> "team1", by |-> advantage]
        /\ advantage.v < -1000 =>
              prediction = [kind |-> "team2", by |-> Num(-advantage.v)]
        /\ (advantage.v >= -1000 /\ advantage.v <= 1000) => prediction.kind = "close"

\* A run whose advantage is exactly 1 and is called close.
C3_Witness ==
    /\ pc = "done"
    /\ advantage = Num(1000)
    /\ prediction.kind = "close"

LoadStep == pc = "load" /\ pc' # "load"

\* C4: a load_nba_data() call made while the cache holds a table takes the
\* table from the cache without fetching when less than 24 hours have passed
\* since it was stored, and otherwise fetches again and replaces the entry
\* with the result of that fetch.
C4_CacheWindow ==
    [][(LoadStep /\ cache.full /\ ~cache.value.isNone) =>
          IF now - cache.stamp < TTL
          THEN /\ ~fetched'
               /\ fetches' = fetches
               /\ nba_data' = cache.value
               /\ cache' = cache
          ELSE /\ fetched'
               /\ fetches' = fetches + 1
               /\ cache' = [full |-> TRUE, value |-> nba_data', stamp |-> now]]_vars

\* The page has been fetched a second time, a day or more after the start,
\* and a table has been loaded.
C4_Witness ==
    /\ fetches = 2
    /\ fetched
    /\ cache.stamp >= TTL
    /\ ~nba_data.isNone
    /\ pc = "injury"

\* C5: a fetch that raises, or a table without a column containing "BPM",
\* makes load_nba_data() return None with an error message; and whenever it
\* returns None the script stops there: no step of the view has run.
C5_FatalLoadStops ==
    pc # "load" =>
        /\ page \in {"unreachable", "no BPM column"} => nba_data.isNone
        /\ nba_data.isNone => (pc = "stopped" /\ st_error # "" /\ ViewNotRun)
        /\ pc = "stopped" => nba_data.isNone

\* A run that met a table without BPM column and has stopped.
C5_Witness ==
    /\ pc = "stopped"
    /\ page = "no BPM column"
    /\ st_error = "Could not find BPM column in the data!"

\* C6: the sorted table is the combined table in the order a stable sort
\* gives: rows with equal keys keep their order in the combined table.
C6_SortIsStable ==
    AfterSort => sorted_data = StableSort(combined_data, sort_by, sort_order = "Ascending")

\* How often x occurs in seq.
Count(seq, x) == Cardinality({i \in 1..Len(seq) : seq[i] = x})

\* top is a top list of the rows df: min(5, n) of its (Player, Impact)
\* pairs, in descending Impact order, none smaller than a pair left out.
IsTopList(top, df) ==
    LET all == PlayerImpact(df)
    IN  /\ Len(top) = Min(5, Len(df))
        /\ \A i, j \in 1..Len(top) : i < j => ~FLess(top[i].Impact, top[j].Impact)
        /\ \A i \in 1..Len(top) : Count(top, top[i]) <= Count(all, top[i])
        /\ \A i \in 1..Len(all) :
              Count(top, all[i]) < Count(all, all[i]) =>
                  \A j \in 1..Len(top) : ~FLess(top[j].Impact, all[i].Impact)

\* C7: each team's top list holds the min(5, n) rows of the team's n
\* qualifying rows with the largest Impact, in descending Impact order, as
\* (Player, Impact) pairs; for a team without qualifying rows the list is
\* empty.
C7_TopFive ==
    pc = "done" =>
        /\ IsTopList(top_team1, team1_data)
        /\ IsTopList(top_team2, team2_data)
        /\ \A t \in {S_LAL, S_BOS, S_MIA} :
              TeamRows(filtered_data, t) = << >> =>
                  NLargest(TeamRows(filtered_data, t), TopN) = {<< >>}

\* Team 1 has more than five qualifying players, one of them injured, and
\* its list has five.
C7_Witness ==
    /\ pc = "done"
    /\ Len(team1_data) > 5
    /\ Len(top_team1) = 5
    /\ \E i \in 1..Len(team1_data) : team1_data[i].Player \in injured_players

\* C8: every record of the loaded table has G different from 0 and finite
\* MPG and Impact.
C8_NoZeroGames ==
    ~nba_data.isNone =>
        \A i \in 1..Len(nba_data.df) :
            /\ nba_data.df[i].G # 0
            /\ IsFinite(nba_data.df[i].MPG)
            /\ IsFinite(nba_data.df[i].Impact)

\* C9: a failed load is not memoized: every run that load_nba_data() ends
\* with None has fetched the page.
C9_FailureNotMemoized == pc = "stopped" => fetched

\* C10: the view raises no error, whatever the loaded table, the injured set
\* and the games threshold.
C10_ViewNeverRaises == pc # "crashed"

====
